---- MODULE Spec2Model ----
(***************************************************************************)
(* AMDA, the Agentic Micro-Decision Advisor of                             *)
(* src/Artificial Intelligence/AMDA/amda.py: perceive -> fuzzy rule        *)
(* activation -> utility aggregation -> tie-broken decision.               *)
(*                                                                         *)
(* Numbers.  The program computes in binary floating point; the model      *)
(* computes the same quantities exactly, in fixed point:                   *)
(*   minutes           in 1/TimeDen of a minute,                           *)
(*   belief strengths  in 1/StrengthOne   (StrengthOne = 120 * TimeDen, so *)
(*                     minutes/120 is the parsed number itself),           *)
(*   memberships       in 1/MemOne        (MemOne = 6 * StrengthOne: the   *)
(*                     slopes 1/3, 1/4, 1/5 and the interpolation between  *)
(*                     two universe points are exact),                     *)
(*   effects, bases    in 1/EffectDen     (twentieths),                    *)
(*   utilities         in 1/UtilOne       (UtilOne = EffectDen * MemOne).  *)
(* Strings (labels, the time_available text) are sequences of one          *)
(* character strings, so that lower() and float() are computed.            *)
(***************************************************************************)
EXTENDS Integers, Sequences, FiniteSets, TLC

VARIABLES
    beliefs,      \* self.beliefs: name -> Belief
    last_action,  \* self.last_action: an Action or None
    iteration,    \* self.iteration
    raising,      \* the rules of self.rules whose preconditions callable raises
    input,        \* the user_input of the last call that took one, or None
    scores,       \* the table last returned by _compute_utilities, or None
    ret           \* what the last call returned or raised

vars == <<beliefs, last_action, iteration, raising, input, scores, ret>>

None == "None"

----------------------------------------------------------------------------
(* Fixed point scales *)

TimeDen == 10 * 10
StrengthOne == 120 * TimeDen
MemOne == 6 * StrengthOne
EffectDen == 2 * 10
UtilOne == EffectDen * MemOne

----------------------------------------------------------------------------
(* Strings *)

UpperToLower ==
    [c \in {"A","B","C","D","E","F","G","H","I","J","K","L","M",
            "N","O","P","Q","R","S","T","U","V","W","X","Y","Z"} |->
        CASE c = "A" -> "a" [] c = "B" -> "b" [] c = "C" -> "c" [] c = "D" -> "d"
          [] c = "E" -> "e" [] c = "F" -> "f" [] c = "G" -> "g" [] c = "H" -> "h"
          [] c = "I" -> "i" [] c = "J" -> "j" [] c = "K" -> "k" [] c = "L" -> "l"
          [] c = "M" -> "m" [] c = "N" -> "n" [] c = "O" -> "o" [] c = "P" -> "p"
          [] c = "Q" -> "q" [] c = "R" -> "r" [] c = "S" -> "s" [] c = "T" -> "t"
          [] c = "U" -> "u" [] c = "V" -> "v" [] c = "W" -> "w" [] c = "X" -> "x"
          [] c = "Y" -> "y" [] c = "Z" -> "z"]

\* str.lower()
Lower(s) ==
    [i \in DOMAIN s |-> IF s[i] \in DOMAIN UpperToLower THEN UpperToLower[s[i]] ELSE s[i]]

Digits == {"0","1","2","3","4","5","6","7","8","9"}

DigitVal(c) ==
    CASE c = "0" -> 0 [] c = "1" -> 1 [] c = "2" -> 2 [] c = "3" -> 3 [] c = "4" -> 4
      [] c = "5" -> 5 [] c = "6" -> 6 [] c = "7" -> 7 [] c = "8" -> 8 [] c = "9" -> 9

RECURSIVE DigitsVal(_)
DigitsVal(s) ==
    IF s = <<>> THEN 0 ELSE 10 * DigitsVal(SubSeq(s, 1, Len(s) - 1)) + DigitVal(s[Len(s)])

\* The position of the first "." of s, or 0.
DotAt(s) ==
    IF \E i \in DOMAIN s : s[i] = "."
    THEN CHOOSE i \in DOMAIN s : s[i] = "." /\ \A j \in 1..(i - 1) : s[j] # "."
    ELSE 0

\* float(s) for the decimal texts [sign] digits [. digits] with at most two
\* fraction digits (the texts the model feeds it); anything that is not a
\* decimal number raises ValueError.  The value is in 1/TimeDen.
ParseFloat(s) ==
    LET signed == s # <<>> /\ s[1] \in {"-", "+"}
        body   == IF signed THEN SubSeq(s, 2, Len(s)) ELSE s
        dot    == DotAt(body)
        ip     == IF dot = 0 THEN body ELSE SubSeq(body, 1, dot - 1)
        fp     == IF dot = 0 THEN <<>> ELSE SubSeq(body, dot + 1, Len(body))
        wellformed ==
            /\ \A i \in DOMAIN ip : ip[i] \in Digits
            /\ \A i \in DOMAIN fp : fp[i] \in Digits
            /\ Len(ip) + Len(fp) > 0
            /\ Len(fp) <= 2
        fpad   == IF Len(fp) = 1 THEN fp \o <<"0">> ELSE fp
        mag    == DigitsVal(ip) * TimeDen + DigitsVal(fpad)
    IN  IF wellformed
        THEN [ok |-> TRUE, val |-> IF signed /\ s[1] = "-" THEN 0 - mag ELSE mag]
        ELSE [ok |-> FALSE, val |-> 0]

----------------------------------------------------------------------------
(* Enums and labels *)

\* class Action, in definition order (the order of `for action in Action`)
ActionOrder ==
    <<"STUDY", "DO_EASY_TASK", "GYM", "SHORT_BREAK", "DEEP_REST",
      "RELAX_ACTIVITY", "AVOID_DISTRACTIONS", "PLAN_NEXT_STEPS">>

Action == {ActionOrder[i] : i \in DOMAIN ActionOrder}

S_low == <<"l","o","w">>
S_medium == <<"m","e","d","i","u","m">>
S_high == <<"h","i","g","h">>
S_bad == <<"b","a","d">>
S_okay == <<"o","k","a","y">>
S_good == <<"g","o","o","d">>
S_none == <<"n","o","n","e">>
S_near == <<"n","e","a","r">>
S_urgent == <<"u","r","g","e","n","t">>

Min(a, b) == IF a <= b THEN a ELSE b
Max(a, b) == IF a >= b THEN a ELSE b

----------------------------------------------------------------------------
(* Membership model: skfuzzy trimf / interp_membership over np.arange(0, 11, 1) *)

Universe == [i \in 0..10 |-> i]

\* trimf without the final assignment y[x == b] = 1
Trimf_NoPeak(x, a, b, c) ==
    [i \in DOMAIN x |->
        IF a # b /\ a < x[i] /\ x[i] < b THEN ((x[i] - a) * MemOne) \div (b - a)
        ELSE IF b # c /\ b < x[i] /\ x[i] < c THEN ((c - x[i]) * MemOne) \div (c - b)
        ELSE 0]

\* fuzz.trimf(x, [a, b, c]): sampled at the universe points
Trimf(x, a, b, c) ==
    [i \in DOMAIN x |->
        IF x[i] = b THEN MemOne
        ELSE IF a # b /\ a < x[i] /\ x[i] < b THEN ((x[i] - a) * MemOne) \div (b - a)
        ELSE IF b # c /\ b < x[i] /\ x[i] < c THEN ((c - x[i]) * MemOne) \div (c - b)
        ELSE 0]

\* self.fuzzy_antecedents
FuzzyAntecedents ==
    [level |->
        [low    |-> Trimf(Universe, 0, 0, 5),
         medium |-> Trimf(Universe, 0, 5, 10),
         high   |-> Trimf(Universe, 5, 10, 10)],
     time_norm |->
        [short  |-> Trimf(Universe, 0, 0, 3),
         medium |-> Trimf(Universe, 2, 5, 8),
         long   |-> Trimf(Universe, 7, 10, 10)],
     deadline |->
        [none   |-> Trimf(Universe, 0, 0, 4),
         near   |-> Trimf(Universe, 2, 5, 8),
         urgent |-> Trimf(Universe, 6, 10, 10)],
     mood |->
        [bad    |-> Trimf(Universe, 0, 0, 5),
         okay   |-> Trimf(Universe, 0, 5, 10),
         good   |-> Trimf(Universe, 5, 10, 10)]]

\* fuzz.interp_membership(x, xmf, xx) = np.interp(xx, x, xmf, left=0.0, right=0.0);
\* xx is in 1/StrengthOne of a universe unit.
InterpMembership(x, xmf, xx) ==
    IF xx < x[0] * StrengthOne \/ xx > x[10] * StrengthOne THEN 0
    ELSE LET i == CHOOSE k \in DOMAIN x :
                    /\ x[k] * StrengthOne <= xx
                    /\ (k = 10 \/ xx < x[k + 1] * StrengthOne)
         IN  IF i = 10 THEN xmf[10]
             ELSE xmf[i] + ((xmf[i + 1] - xmf[i]) * (xx - x[i] * StrengthOne))
                               \div ((x[i + 1] - x[i]) * StrengthOne)

LevelNames == {"physical_fatigue", "energy_level", "stress_level", "mental_focus"}

\* _get_fuzz_mem without the scaling of the belief by 10
GetFuzzMem_Unscaled(b_name, f_set_name, belief_dict) ==
    LET val == IF b_name \in DOMAIN belief_dict THEN belief_dict[b_name] ELSE 0
    IN  IF b_name \in LevelNames
        THEN InterpMembership(Universe, FuzzyAntecedents.level[f_set_name], val)
        ELSE IF b_name = "mood"
        THEN InterpMembership(Universe, FuzzyAntecedents.mood[f_set_name], val)
        ELSE IF b_name = "time_available_norm"
        THEN InterpMembership(Universe, FuzzyAntecedents.time_norm[f_set_name], val)
        ELSE IF b_name = "deadline_status"
        THEN InterpMembership(Universe, FuzzyAntecedents.deadline[f_set_name], val)
        ELSE 0

\* AMDA._get_fuzz_mem
GetFuzzMem(b_name, f_set_name, belief_dict) ==
    LET val == (IF b_name \in DOMAIN belief_dict THEN belief_dict[b_name] ELSE 0) * 10
    IN  IF b_name \in LevelNames
        THEN InterpMembership(Universe, FuzzyAntecedents.level[f_set_name], val)
        ELSE IF b_name = "mood"
        THEN InterpMembership(Universe, FuzzyAntecedents.mood[f_set_name], val)
        ELSE IF b_name = "time_available_norm"
        THEN InterpMembership(Universe, FuzzyAntecedents.time_norm[f_set_name], val)
        ELSE IF b_name = "deadline_status"
        THEN InterpMembership(Universe, FuzzyAntecedents.deadline[f_set_name], val)
        ELSE 0

----------------------------------------------------------------------------
(* Perception *)

\* AMDA._map_level
MapLevel(label) ==
    LET l == Lower(label)
    IN  IF l = S_low THEN 0
        ELSE IF l = S_medium THEN StrengthOne \div 2
        ELSE IF l = S_high THEN StrengthOne
        ELSE StrengthOne \div 2

\* AMDA._map_mood
MapMood(label) ==
    LET l == Lower(label)
    IN  IF l = S_bad THEN 0
        ELSE IF l = S_okay THEN StrengthOne \div 2
        ELSE IF l = S_good THEN StrengthOne
        ELSE StrengthOne \div 2

\* _map_deadline with the midpoint default of the other two mappings
MapDeadline_MidDefault(label) ==
    LET l == Lower(label)
    IN  IF l = S_none THEN 0
        ELSE IF l = S_near THEN StrengthOne \div 2
        ELSE IF l = S_urgent THEN StrengthOne
        ELSE StrengthOne \div 2

\* _map_deadline whose mapping lacks the 'urgent' entry
MapDeadline_NoUrgent(label) ==
    LET l == Lower(label)
    IN  IF l = S_none THEN 0
        ELSE IF l = S_near THEN StrengthOne \div 2
        ELSE 0

\* AMDA._map_deadline
MapDeadline(label) ==
    LET l == Lower(label)
    IN  IF l = S_none THEN 0
        ELSE IF l = S_near THEN StrengthOne \div 2
        ELSE IF l = S_urgent THEN StrengthOne
        ELSE 0

\* the keys of belief_mapping
BeliefMappingKeys ==
    {"energy_level", "stress_level", "mental_focus", "mood", "physical_fatigue",
     "deadline_status"}

\* belief_mapping[key](value)
BeliefMapping(key, value) ==
    IF key = "mood" THEN MapMood(value)
    ELSE IF key = "deadline_status" THEN MapDeadline(value)
    ELSE MapLevel(value)

\* the keys a user_input may carry, in the order the model iterates them
InputKeyOrder ==
    <<"energy_level", "stress_level", "time_available", "deadline_status",
      "mental_focus", "mood", "physical_fatigue", "hunger">>

InputKeys == {InputKeyOrder[i] : i \in DOMAIN InputKeyOrder}

\* user_input.items(): the keys present, as a sequence
Items(user_input) == SelectSeq(InputKeyOrder, LAMBDA k : k \in DOMAIN user_input)

\* perceive without the clear
Clear_Keep(b) == b

\* self.beliefs.clear()
Clear(b) == [n \in {} |-> b[n]]

\* self.beliefs[key] = Belief(...)
Store(b, key, belief) ==
    [n \in (DOMAIN b) \cup {key} |-> IF n = key THEN belief ELSE b[n]]

\* for key, value in user_input.items(): ...
RECURSIVE PerceiveLoop(_, _, _)
PerceiveLoop(keys, user_input, b) ==
    IF keys = <<>> THEN b
    ELSE LET key == Head(keys)
             value == user_input[key]
         IN  PerceiveLoop(Tail(keys), user_input,
                IF key \in BeliefMappingKeys
                THEN Store(b, key, [name |-> key, value |-> value,
                                    numeric_strength |-> BeliefMapping(key, value)])
                ELSE b)

\* the time with a fall back to the default 30 when the text is not a number
TimeVal_Lenient(user_input) ==
    IF "time_available" \in DOMAIN user_input /\ ParseFloat(user_input["time_available"]).ok
    THEN ParseFloat(user_input["time_available"])
    ELSE [ok |-> TRUE, val |-> 30 * TimeDen]

\* float(user_input.get('time_available', 30))
TimeVal(user_input) ==
    IF "time_available" \in DOMAIN user_input
    THEN ParseFloat(user_input["time_available"])
    ELSE [ok |-> TRUE, val |-> 30 * TimeDen]

\* AMDA.perceive on belief map b: the belief map it leaves, and whether it
\* raised (the map is cleared before float() can raise).  The time belief's
\* value, str(time_val), is kept as the number it prints.
Perceive(b, user_input) ==
    LET cleared == Clear(b)
        t == TimeVal(user_input)
        time_norm == Min((t.val * StrengthOne) \div (120 * TimeDen), StrengthOne)
    IN  IF ~t.ok THEN [raised |-> "ValueError", beliefs |-> cleared]
        ELSE [raised |-> None,
              beliefs |->
                Store(PerceiveLoop(Items(user_input), user_input, cleared),
                      "time_available_norm",
                      [name |-> "time_available_norm", value |-> t.val,
                       numeric_strength |-> time_norm])]

----------------------------------------------------------------------------
(* Rules *)

\* base_utilities with those of SHORT_BREAK and AVOID_DISTRACTIONS exchanged
BaseUtilities_Exchanged ==
    [a \in Action |->
        CASE a = "STUDY" -> 6
          [] a = "DO_EASY_TASK" -> 8
          [] a = "GYM" -> 7
          [] a = "SHORT_BREAK" -> 3
          [] a = "DEEP_REST" -> 4
          [] a = "RELAX_ACTIVITY" -> 5
          [] a = "AVOID_DISTRACTIONS" -> 10
          [] a = "PLAN_NEXT_STEPS" -> 10]

\* self.base_utilities, in 1/EffectDen
BaseUtilities ==
    [a \in Action |->
        CASE a = "STUDY" -> 6
          [] a = "DO_EASY_TASK" -> 8
          [] a = "GYM" -> 7
          [] a = "SHORT_BREAK" -> 10
          [] a = "DEEP_REST" -> 4
          [] a = "RELAX_ACTIVITY" -> 5
          [] a = "AVOID_DISTRACTIONS" -> 3
          [] a = "PLAN_NEXT_STEPS" -> 10]

\* self.rules: name, effects (in 1/EffectDen) and weight (in tenths) of the nine
\* rules, in list order; the preconditions callable is Preconditions below.
Rules ==
    <<[name |-> "deadline_urgency", weight |-> 20,
       effects |-> [a \in {"STUDY", "PLAN_NEXT_STEPS"} |->
                        IF a = "STUDY" THEN 16 ELSE 6]],
      [name |-> "high_fatigue", weight |-> 20,
       effects |-> [a \in {"DEEP_REST", "STUDY"} |->
                        IF a = "DEEP_REST" THEN 18 ELSE 0 - 8]],
      [name |-> "low_energy_short_time", weight |-> 15,
       effects |-> [a \in {"DO_EASY_TASK", "STUDY"} |->
                        IF a = "DO_EASY_TASK" THEN 14 ELSE 0 - 10]],
      [name |-> "high_focus_time", weight |-> 15,
       effects |-> [a \in {"STUDY"} |-> 12]],
      [name |-> "stress_mitigation", weight |-> 15,
       effects |-> [a \in {"SHORT_BREAK", "AVOID_DISTRACTIONS", "RELAX_ACTIVITY"} |->
                        IF a = "SHORT_BREAK" THEN 10
                        ELSE IF a = "AVOID_DISTRACTIONS" THEN 6 ELSE 8]],
      [name |-> "exercise_readiness", weight |-> 13,
       effects |-> [a \in {"GYM"} |-> 16]],
      [name |-> "good_mood_relax", weight |-> 10,
       effects |-> [a \in {"RELAX_ACTIVITY", "AVOID_DISTRACTIONS"} |->
                        IF a = "RELAX_ACTIVITY" THEN 8 ELSE 0 - 4]],
      [name |-> "bad_mood_care", weight |-> 15,
       effects |-> [a \in {"DEEP_REST", "RELAX_ACTIVITY", "STUDY"} |->
                        IF a = "STUDY" THEN 0 - 6 ELSE 6]],
      [name |-> "planning_clarity", weight |-> 10,
       effects |-> [a \in {"PLAN_NEXT_STEPS"} |-> 10]]>>

RuleNames == {Rules[i].name : i \in DOMAIN Rules}

\* rule.preconditions(b) of the rule named `name`: its lambda, np.fmin/np.fmax
\* as Min/Max, in 1/MemOne
Preconditions(name, b) ==
    CASE name = "deadline_urgency" ->
            Max(GetFuzzMem("deadline_status", "near", b),
                GetFuzzMem("deadline_status", "urgent", b))
      [] name = "high_fatigue" ->
            GetFuzzMem("physical_fatigue", "high", b)
      [] name = "low_energy_short_time" ->
            Min(GetFuzzMem("energy_level", "low", b),
                GetFuzzMem("time_available_norm", "short", b))
      [] name = "high_focus_time" ->
            Min(GetFuzzMem("mental_focus", "high", b),
                Max(GetFuzzMem("time_available_norm", "medium", b),
                    GetFuzzMem("time_available_norm", "long", b)))
      [] name = "stress_mitigation" ->
            GetFuzzMem("stress_level", "high", b)
      [] name = "exercise_readiness" ->
            Min(GetFuzzMem("energy_level", "high", b),
                Min(GetFuzzMem("physical_fatigue", "low", b),
                    GetFuzzMem("time_available_norm", "long", b)))
      [] name = "good_mood_relax" ->
            GetFuzzMem("mood", "good", b)
      [] name = "bad_mood_care" ->
            GetFuzzMem("mood", "bad", b)
      [] name = "planning_clarity" ->
            Min(GetFuzzMem("deadline_status", "none", b),
                GetFuzzMem("mental_focus", "low", b))

\* the beliefs the lambda of the rule named `name` reads
RuleReads(name) ==
    CASE name = "deadline_urgency" -> {"deadline_status"}
      [] name = "high_fatigue" -> {"physical_fatigue"}
      [] name = "low_energy_short_time" -> {"energy_level", "time_available_norm"}
      [] name = "high_focus_time" -> {"mental_focus", "time_available_norm"}
      [] name = "stress_mitigation" -> {"stress_level"}
      [] name = "exercise_readiness" ->
            {"energy_level", "physical_fatigue", "time_available_norm"}
      [] name = "good_mood_relax" -> {"mood"}
      [] name = "bad_mood_care" -> {"mood"}
      [] name = "planning_clarity" -> {"deadline_status", "mental_focus"}

----------------------------------------------------------------------------
(* Utility engine *)

\* the 0.001 of `activation_strength > 0.001`, in 1/MemOne
ActivationThreshold == MemOne \div 1000

\* rule.effects.get(action, 0.0)
EffectOf(rule, action) ==
    IF action \in DOMAIN rule.effects THEN rule.effects[action] ELSE 0

\* the delta scaled by the rule's weight as well
Delta_Weighted(rule, action, activation_strength) ==
    (EffectOf(rule, action) * activation_strength * rule.weight) \div 10

\* delta = rule.effects.get(action, 0.0) * activation_strength, in 1/UtilOne
Delta(rule, action, activation_strength) ==
    EffectOf(rule, action) * activation_strength

\* rule.preconditions(belief_dict) for every rule of the list, in list order.
\* The callable is a pure function of belief_dict, so the value the loop
\* computes anew for each action is computed once per rule here.
RECURSIVE Activations(_, _)
Activations(rules, belief_dict) ==
    IF rules = <<>> THEN <<>>
    ELSE <<Preconditions(Head(rules).name, belief_dict)>>
            \o Activations(Tail(rules), belief_dict)

\* the rule loop with the try around the whole loop: a raise ends the loop
RECURSIVE RuleLoop_AbortOnRaise(_, _, _, _, _, _)
RuleLoop_AbortOnRaise(rules, i, action, activations, raises, acc) ==
    IF i > Len(rules) THEN acc
    ELSE LET rule == rules[i]
             activation_strength == activations[i]
             delta == EffectOf(rule, action) * activation_strength
             next ==
                IF activation_strength > ActivationThreshold /\ delta # 0
                THEN [total |-> acc.total + delta,
                      contributions |->
                        [n \in (DOMAIN acc.contributions) \cup {rule.name} |->
                            IF n = rule.name THEN delta ELSE acc.contributions[n]]]
                ELSE acc
         IN  IF rule.name \in raises THEN acc
             ELSE RuleLoop_AbortOnRaise(rules, i + 1, action, activations, raises, next)

\* The body of `for rule in self.rules` for one action, from rule i on: acc is
\* (total, contributions); a rule in `raises` raises inside the try and is
\* skipped.
RECURSIVE RuleLoop(_, _, _, _, _, _)
RuleLoop(rules, i, action, activations, raises, acc) ==
    IF i > Len(rules) THEN acc
    ELSE LET rule == rules[i]
             activation_strength == activations[i]
             delta == Delta(rule, action, activation_strength)
             next ==
                IF rule.name \in raises THEN acc
                ELSE IF activation_strength > ActivationThreshold /\ delta # 0
                THEN [total |-> acc.total + delta,
                      contributions |->
                        [n \in (DOMAIN acc.contributions) \cup {rule.name} |->
                            IF n = rule.name THEN delta ELSE acc.contributions[n]]]
                ELSE acc
         IN  RuleLoop(rules, i + 1, action, activations, raises, next)

\* belief_dict = {b.name: b.numeric_strength for b in self.beliefs.values()}
BeliefDict(b) == [n \in DOMAIN b |-> b[n].numeric_strength]

\* AMDA._compute_utilities over belief map b, on rule list `rules`
ComputeUtilities(b, rules, raises) ==
    LET belief_dict == BeliefDict(b)
        activations == Activations(rules, belief_dict)
    IN  [action \in Action |->
            LET r == RuleLoop(rules, 1, action, activations, raises,
                              [total |-> BaseUtilities[action] * MemOne,
                               contributions |-> [n \in {} |-> 0]])
            IN  [action |-> action,
                 base_utility |-> BaseUtilities[action] * MemOne,
                 contributions |-> r.contributions,
                 total_utility |-> r.total]]

----------------------------------------------------------------------------
(* Decision resolver *)

\* epsilon = 0.1, in 1/UtilOne
Epsilon == UtilOne \div 10

Abs(x) == IF x < 0 THEN 0 - x ELSE x

\* insert s after every element whose total is >= s's (stable, descending)
RECURSIVE InsertDesc(_, _)
InsertDesc(sorted, s) ==
    IF sorted = <<>> THEN <<s>>
    ELSE IF Head(sorted).total_utility >= s.total_utility
    THEN <<Head(sorted)>> \o InsertDesc(Tail(sorted), s)
    ELSE <<s>> \o sorted

\* sorted(seq, key=lambda s: s.total_utility, reverse=True): stable
RECURSIVE SortedDesc(_)
SortedDesc(seq) ==
    IF seq = <<>> THEN <<>>
    ELSE InsertDesc(SortedDesc(SubSeq(seq, 1, Len(seq) - 1)), seq[Len(seq)])

\* scores.values(): insertion order, the order of Action
Values(table) == [i \in DOMAIN ActionOrder |-> table[ActionOrder[i]]]

HealthPriority == {"DEEP_REST", "SHORT_BREAK", "RELAX_ACTIVITY"}

DeadlinePriority == {"STUDY", "PLAN_NEXT_STEPS"}

\* _resolve_decision with the deadline tier tried before the health tier
ResolveDecision_DeadlineFirst(table, last) ==
    LET sorted_scores == SortedDesc(Values(table))
        best == sorted_scores[1]
        contenders ==
            SelectSeq(sorted_scores,
                      LAMBDA s : Abs(s.total_utility - best.total_utility) <= Epsilon)
        health_contenders == SelectSeq(contenders, LAMBDA s : s.action \in HealthPriority)
        deadline_contenders ==
            SelectSeq(contenders, LAMBDA s : s.action \in DeadlinePriority)
        non_repeated == SelectSeq(contenders, LAMBDA s : s.action # last)
        chosen ==
            IF Len(contenders) > 1
            THEN IF deadline_contenders # <<>> THEN SortedDesc(deadline_contenders)[1]
                 ELSE IF health_contenders # <<>> THEN SortedDesc(health_contenders)[1]
                 ELSE IF last # None /\ non_repeated # <<>>
                 THEN SortedDesc(non_repeated)[1]
                 ELSE best
            ELSE best
    IN  [action |-> chosen.action, score |-> chosen]

\* _resolve_decision without the anti-repetition tier
ResolveDecision_NoRepeatTier(table, last) ==
    LET sorted_scores == SortedDesc(Values(table))
        best == sorted_scores[1]
        contenders ==
            SelectSeq(sorted_scores,
                      LAMBDA s : Abs(s.total_utility - best.total_utility) <= Epsilon)
        health_contenders == SelectSeq(contenders, LAMBDA s : s.action \in HealthPriority)
        deadline_contenders ==
            SelectSeq(contenders, LAMBDA s : s.action \in DeadlinePriority)
        chosen ==
            IF Len(contenders) > 1
            THEN IF health_contenders # <<>> THEN SortedDesc(health_contenders)[1]
                 ELSE IF deadline_contenders # <<>> THEN SortedDesc(deadline_contenders)[1]
                 ELSE best
            ELSE best
    IN  [action |-> chosen.action, score |-> chosen]

\* _resolve_decision with the anti-repetition tier tried before the others
ResolveDecision_RepeatFirst(table, last) ==
    LET sorted_scores == SortedDesc(Values(table))
        best == sorted_scores[1]
        contenders ==
            SelectSeq(sorted_scores,
                      LAMBDA s : Abs(s.total_utility - best.total_utility) <= Epsilon)
        health_contenders == SelectSeq(contenders, LAMBDA s : s.action \in HealthPriority)
        deadline_contenders ==
            SelectSeq(contenders, LAMBDA s : s.action \in DeadlinePriority)
        non_repeated == SelectSeq(contenders, LAMBDA s : s.action # last)
        chosen ==
            IF Len(contenders) > 1
            THEN IF last # None /\ non_repeated # <<>> THEN SortedDesc(non_repeated)[1]
                 ELSE IF health_contenders # <<>> THEN SortedDesc(health_contenders)[1]
                 ELSE IF deadline_contenders # <<>> THEN SortedDesc(deadline_contenders)[1]
                 ELSE best
            ELSE best
    IN  [action |-> chosen.action, score |-> chosen]

\* AMDA._resolve_decision: the (action, score) it returns
ResolveDecision(table, last) ==
    LET sorted_scores == SortedDesc(Values(table))
        best == sorted_scores[1]
        contenders ==
            SelectSeq(sorted_scores,
                      LAMBDA s : Abs(s.total_utility - best.total_utility) <= Epsilon)
        health_contenders == SelectSeq(contenders, LAMBDA s : s.action \in HealthPriority)
        deadline_contenders ==
            SelectSeq(contenders, LAMBDA s : s.action \in DeadlinePriority)
        non_repeated == SelectSeq(contenders, LAMBDA s : s.action # last)
        chosen ==
            IF Len(contenders) > 1
            THEN IF health_contenders # <<>> THEN SortedDesc(health_contenders)[1]
                 ELSE IF deadline_contenders # <<>> THEN SortedDesc(deadline_contenders)[1]
                 ELSE IF last # None /\ non_repeated # <<>>
                 THEN SortedDesc(non_repeated)[1]
                 ELSE best
            ELSE best
    IN  [action |-> chosen.action, score |-> chosen]

----------------------------------------------------------------------------
(* Inputs *)

\* a user_input with the seven prompted keys
Inp(energy, stress, time, deadline, focus, mood, fatigue) ==
    [k \in {"energy_level", "stress_level", "time_available", "deadline_status",
            "mental_focus", "mood", "physical_fatigue"} |->
        CASE k = "energy_level" -> energy
          [] k = "stress_level" -> stress
          [] k = "time_available" -> time
          [] k = "deadline_status" -> deadline
          [] k = "mental_focus" -> focus
          [] k = "mood" -> mood
          [] k = "physical_fatigue" -> fatigue]

\* the scenarios of run_demo, in list order
DemoScenarios ==
    <<Inp(S_high, S_low, <<"1","2","0">>, S_near, S_high, S_good, S_low),
      Inp(S_low, S_medium, <<"3","0">>, S_none, S_low, S_bad, S_high),
      Inp(S_low, S_low, <<"1","5">>, S_none, S_medium, S_okay, S_medium),
      Inp(S_medium, S_high, <<"6","0">>, S_urgent, S_medium, S_okay, S_low),
      Inp(S_high, S_low, <<"7","5">>, S_none, S_high, S_good, S_low)>>

\* user_input without key k
Drop(x, k) == [j \in (DOMAIN x) \ {k} |-> x[j]]

\* user_input with key k set to v
With(x, k, v) == [j \in (DOMAIN x) \cup {k} |-> IF j = k THEN v ELSE x[j]]

\* labels in another case, and labels no mapping of that key knows
OddLabels(k) ==
    IF k = "mood" THEN {<<"G","O","O","D">>, <<"B","a","d">>, S_low}
    ELSE IF k = "deadline_status" THEN {<<"U","r","G","e","N","t">>, <<"s","o","o","n">>}
    ELSE {<<"H","i","g","h">>, <<"L","O","W">>, S_bad}

\* time_available texts: negative, zero, fractional on either side of the 0.001
\* activation of 'long', over the 120 cap, and not numbers
OddTimes ==
    {<<"-","3","0">>, <<"0">>, <<"8","4",".","0","1">>, <<"8","4",".","0","4">>,
     <<"2","0","0">>, <<"a","b","c">>, <<>>}

S_abc == <<"a","b","c">>

NumScenarios == 2

\* the inputs of the agent's state machine: the first NumScenarios demo
\* scenarios, each as it is, with one key missing and with a time that is not
\* a number; and the empty input
Inputs ==
    LET base == {DemoScenarios[i] : i \in 1..Min(NumScenarios, Len(DemoScenarios))}
    IN  base
        \cup {Drop(x, "physical_fatigue") : x \in base}
        \cup {With(x, "time_available", S_abc) : x \in base}
        \cup {[k \in {} |-> <<>>]}

\* the label of key k at level i (1..3)
LabelOf(k, i) ==
    IF k = "mood" THEN <<S_bad, S_okay, S_good>>[i]
    ELSE IF k = "deadline_status" THEN <<S_none, S_near, S_urgent>>[i]
    ELSE <<S_low, S_medium, S_high>>[i]

TimeTexts ==
    <<<<"3","0">>, <<"9","0">>, <<"1","5">>, <<"1","2","0">>, <<"6","0">>,
      <<"7","5">>, <<"4","5">>>>

NumTimes == 2

\* the input that gives label key k its label c[k], or no entry when
\* c[k] = 0, and the t-th time
GridInput(c, t) ==
    [k \in {j \in BeliefMappingKeys : c[j] # 0} \cup {"time_available"} |->
        IF k = "time_available" THEN TimeTexts[t] ELSE LabelOf(k, c[k])]

\* every choice of a recognized label, or of no entry, for each of the six
\* label keys
GridChoices == [BeliefMappingKeys -> 0..3]

\* the first NumTimes times
GridTimes == 1..Min(NumTimes, Len(TimeTexts))

\* every demo scenario with one key missing, with one odd label, with an odd
\* time, and with an unrecognized key
OddInputs ==
    LET base == {DemoScenarios[i] : i \in DOMAIN DemoScenarios}
    IN  {Drop(x, k) : x \in base, k \in InputKeys \ {"hunger"}}
        \cup UNION {{With(x, k, v) : v \in OddLabels(k)} :
                        x \in base, k \in BeliefMappingKeys}
        \cup {With(x, "time_available", t) : x \in base, t \in OddTimes}
        \cup {With(x, "hunger", S_high) : x \in base}

----------------------------------------------------------------------------
(* The agent *)

MaxIteration == 2

Ret(op, raised, action) == [op |-> op, raised |-> raised, action |-> action]

\* AMDA.__init__
Init ==
    /\ beliefs = [n \in {} |-> 0]
    /\ last_action = None
    /\ iteration = 0
    /\ raising = {}
    /\ input = <<>>
    /\ scores = <<>>
    /\ ret = Ret("init", None, None)

\* agent.perceive(x)
PerceiveCall(x) ==
    LET p == Perceive(beliefs, x)
    IN  /\ beliefs' = p.beliefs
        /\ input' = <<x>>
        /\ scores' = <<>>
        /\ ret' = Ret("perceive", p.raised, None)
        /\ UNCHANGED <<last_action, iteration, raising>>

\* agent._compute_utilities()
ComputeCall ==
    /\ scores' = <<ComputeUtilities(beliefs, Rules, raising)>>
    /\ ret' = Ret("compute", None, None)
    /\ UNCHANGED <<beliefs, last_action, iteration, raising, input>>

\* agent._resolve_decision(scores)
ResolveCall ==
    /\ scores # <<>>
    /\ ret' = Ret("resolve", None, ResolveDecision(scores[1], last_action).action)
    /\ UNCHANGED <<beliefs, last_action, iteration, raising, input, scores>>

\* decide without self.last_action = chosen_action
Decide_KeepsLast(x) ==
    /\ iteration < MaxIteration
    /\ iteration' = iteration + 1
    /\ input' = <<x>>
    /\ UNCHANGED <<raising, last_action>>
    /\ LET p == Perceive(beliefs, x)
           utility_scores == ComputeUtilities(p.beliefs, Rules, raising)
           chosen == ResolveDecision(utility_scores, last_action)
       IN  /\ beliefs' = p.beliefs
           /\ IF p.raised # None
              THEN /\ scores' = <<>>
                   /\ ret' = Ret("decide", p.raised, None)
              ELSE /\ scores' = <<utility_scores>>
                   /\ ret' = Ret("decide", None, chosen.action)

\* agent.decide(x); the explanation text is not modelled
Decide(x) ==
    /\ iteration < MaxIteration
    /\ iteration' = iteration + 1
    /\ input' = <<x>>
    /\ UNCHANGED raising
    /\ LET p == Perceive(beliefs, x)
           utility_scores == ComputeUtilities(p.beliefs, Rules, raising)
           chosen == ResolveDecision(utility_scores, last_action)
       IN  /\ beliefs' = p.beliefs
           /\ IF p.raised # None
              THEN /\ scores' = <<>>
                   /\ ret' = Ret("decide", p.raised, None)
                   /\ UNCHANGED last_action
              ELSE /\ scores' = <<utility_scores>>
                   /\ last_action' = chosen.action
                   /\ ret' = Ret("decide", None, chosen.action)

\* agent.print_utility_table(x); the printed text is not modelled
PrintUtilityTable(x) ==
    LET p == Perceive(beliefs, x)
    IN  /\ beliefs' = p.beliefs
        /\ input' = <<x>>
        /\ IF p.raised # None
           THEN /\ scores' = <<>>
                /\ ret' = Ret("print", p.raised, None)
           ELSE /\ scores' = <<ComputeUtilities(p.beliefs, Rules, raising)>>
                /\ ret' = Ret("print", None, None)
        /\ UNCHANGED <<last_action, iteration, raising>>

Next ==
    \/ \E x \in Inputs : PerceiveCall(x)
    \/ ComputeCall
    \/ ResolveCall
    \/ \E x \in Inputs : Decide(x)
    \/ \E x \in Inputs : PrintUtilityTable(x)

Spec == Init /\ [][Next]_vars

\* One call on a fresh agent, over the grid of labels and times and over the
\* odd inputs
NextSweep ==
    /\ ret.op = "init"
    /\ \/ \E x \in OddInputs \cup Inputs : PerceiveCall(x)
       \/ \E x \in OddInputs \cup Inputs : Decide(x)
       \/ \E c \in GridChoices, t \in GridTimes : PerceiveCall(GridInput(c, t))
       \/ \E c \in GridChoices, t \in GridTimes : Decide(GridInput(c, t))

SpecSweep == Init /\ [][NextSweep]_vars

----------------------------------------------------------------------------
(* _resolve_decision as a function of its table and of last_action *)

NumLevels == 3

\* totals on either side of epsilon: equal, exactly epsilon apart, just over
\* epsilon apart, and further
TotalLevels ==
    <<UtilOne \div 2, UtilOne \div 2 + Epsilon, UtilOne \div 2 + Epsilon + 1,
      UtilOne \div 2 + 2 * Epsilon + 2, UtilOne>>

\* the score table that gives action a the level lv[a]
TableOf(lv) ==
    [a \in Action |->
        [action |-> a,
         base_utility |-> BaseUtilities[a] * MemOne,
         contributions |-> [n \in {} |-> 0],
         total_utility |-> TotalLevels[lv[a]]]]

InitResolve ==
    /\ beliefs = [n \in {} |-> 0]
    /\ last_action \in Action \cup {None}
    /\ iteration = 0
    /\ raising = {}
    /\ input = <<>>
    /\ \E lv \in [Action -> 1..Min(NumLevels, Len(TotalLevels))] :
            scores = <<TableOf(lv)>>
    /\ ret = Ret("init", None, None)

NextResolve == ret.op = "init" /\ ResolveCall

SpecResolve == InitResolve /\ [][NextResolve]_vars

----------------------------------------------------------------------------
(* Rules that raise.  None of the nine lambdas can raise on a belief_dict of  *)
(* numbers; self.rules is a list of Rule objects with arbitrary callables, and *)
(* the except clause of _compute_utilities is for the ones that do.           *)

MaxRaising == 1

InitFault ==
    /\ beliefs = [n \in {} |-> 0]
    /\ last_action = None
    /\ iteration = 0
    /\ raising \in {R \in SUBSET RuleNames : Cardinality(R) <= MaxRaising}
    /\ input = <<>>
    /\ scores = <<>>
    /\ ret = Ret("init", None, None)

NextFault ==
    /\ ret.op = "init"
    /\ \/ \E x \in OddInputs \cup Inputs : PrintUtilityTable(x)
       \/ \E x \in OddInputs \cup Inputs : Decide(x)

SpecFault == InitFault /\ [][NextFault]_vars

----------------------------------------------------------------------------
(* _get_fuzz_mem as a function of the belief name, the set name and the      *)
(* belief_dict: one query on a belief_dict of one entry                        *)

\* the strengths drawn are the multiples of 1/(10 * MemSub): with MemSub = 1
\* the universe points
MemSub == 1

\* the belief names _get_fuzz_mem routes to an antecedent
RoutedNames == LevelNames \cup {"mood", "time_available_norm", "deadline_status"}

\* the antecedent _get_fuzz_mem picks for b_name
AntecedentOf(b_name) ==
    IF b_name \in LevelNames THEN FuzzyAntecedents.level
    ELSE IF b_name = "mood" THEN FuzzyAntecedents.mood
    ELSE IF b_name = "time_available_norm" THEN FuzzyAntecedents.time_norm
    ELSE FuzzyAntecedents.deadline

InitMembership ==
    /\ \E n \in RoutedNames, k \in 0..(10 * MemSub) :
            beliefs = Store(Clear(<<>>), n,
                            [name |-> n, value |-> <<>>,
                             numeric_strength |-> (k * StrengthOne) \div (10 * MemSub)])
    /\ last_action = None
    /\ iteration = 0
    /\ raising = {}
    /\ input = <<>>
    /\ scores = <<>>
    /\ ret = Ret("init", None, None)

\* self._get_fuzz_mem(b_name, f_set_name, belief_dict): ret keeps the arguments
\* and the degree returned
GetFuzzMemCall(b_name, f_set_name) ==
    /\ ret' = [op |-> "get_fuzz_mem", raised |-> None, action |-> None,
               b_name |-> b_name, f_set_name |-> f_set_name,
               degree |-> GetFuzzMem(b_name, f_set_name, BeliefDict(beliefs))]
    /\ UNCHANGED <<beliefs, last_action, iteration, raising, input, scores>>

NextMembership ==
    /\ ret.op = "init"
    /\ \E n \in RoutedNames : \E f \in DOMAIN AntecedentOf(n) : GetFuzzMemCall(n, f)

SpecMembership == InitMembership /\ [][NextMembership]_vars

----------------------------------------------------------------------------
(* decide after a history: a first decide call on one of the demo scenarios,  *)
(* which records a last_action, then a second one on any input                 *)

\* the inputs of the first call: the scenarios of run_demo, and the fifth with
\* the two hours that make it ready for exercise
HistoryInputs ==
    {DemoScenarios[i] : i \in DOMAIN DemoScenarios}
        \cup {With(DemoScenarios[Len(DemoScenarios)], "time_available", <<"1","2","0">>)}

\* every choice of a recognized label for each of the six label keys
HistoryChoices == [BeliefMappingKeys -> 1..3]

\* two calls: the first on one of HistoryInputs, the second on an odd input or
\* on a combination of recognized labels at one of the first NumTimes times
NextHistory ==
    /\ iteration \in {0, 1}
    /\ \/ iteration = 0 /\ \E x \in HistoryInputs : Decide(x)
       \/ iteration = 1 /\
            \E x \in OddInputs \cup Inputs
                        \cup {GridInput(c, t) : c \in HistoryChoices, t \in GridTimes} :
                Decide(x)

SpecHistory == Init /\ [][NextHistory]_vars

----------------------------------------------------------------------------
(* Claims *)

\* the greatest total of table T
MaxTotal(T) ==
    LET totals == {T[a].total_utility : a \in Action}
    IN  CHOOSE m \in totals : \A n \in totals : n <= m

\* the actions of table T whose total is within epsilon of m
Within(T, m) == {a \in Action : m - T[a].total_utility <= Epsilon}

\* C1: Health priority.  Whenever _resolve_decision returns on a table with
\* more than one contender of which at least one is a health action, it returns
\* a health contender of the highest total among the health contenders; and when
\* DEEP_REST and STUDY alone share the maximum total, it returns DEEP_REST.
C1_HealthPriority ==
    ret.op = "resolve" =>
        LET T == scores[1]
            m == MaxTotal(T)
            contenders == Within(T, m)
            hc == contenders \cap HealthPriority
        IN  /\ (Cardinality(contenders) > 1 /\ hc # {}) =>
                    /\ ret.action \in hc
                    /\ \A a \in hc : T[a].total_utility <= T[ret.action].total_utility
            /\ {a \in Action : T[a].total_utility = m} = {"DEEP_REST", "STUDY"} =>
                    ret.action = "DEEP_REST"

\* C1 witness: a health action was returned although STUDY, a contender, had a
\* strictly higher total
C1_Witness ==
    /\ ret.op = "resolve"
    /\ ret.action \in HealthPriority
    /\ scores[1]["STUDY"].total_utility > scores[1][ret.action].total_utility

\* the sum of f[i] over the finite set S of indices
RECURSIVE SumOver(_, _)
SumOver(S, f) ==
    IF S = {} THEN 0
    ELSE LET i == CHOOSE j \in S : TRUE IN f[i] + SumOver(S \ {i}, f)

\* the base utilities the claim lists, in twentieths
C2_Base ==
    [a \in Action |->
        CASE a = "STUDY" -> 6 [] a = "DO_EASY_TASK" -> 8 [] a = "GYM" -> 7
          [] a = "SHORT_BREAK" -> 10 [] a = "DEEP_REST" -> 4
          [] a = "RELAX_ACTIVITY" -> 5 [] a = "AVOID_DISTRACTIONS" -> 3
          [] a = "PLAN_NEXT_STEPS" -> 10]

\* C2: Utility aggregation.  Whenever a table has been computed from the
\* current beliefs, each of the 8 actions' total is its fixed base utility plus
\* the sum of activation * effect over exactly the rules, of the nine, whose
\* activation exceeds 0.001 and whose effect on the action is not zero; the
\* contributions map holds exactly those rules with those products; no weight
\* enters.
C2_Aggregation ==
    scores # <<>> =>
        LET T == scores[1]
            bd == BeliefDict(beliefs)
            act == [i \in DOMAIN Rules |-> Preconditions(Rules[i].name, bd)]
        IN  /\ Len(Rules) = 9
            /\ DOMAIN T = Action
            /\ \A a \in Action :
                LET firing == {i \in DOMAIN Rules :
                                    /\ 1000 * act[i] > MemOne
                                    /\ a \in DOMAIN Rules[i].effects
                                    /\ Rules[i].effects[a] # 0}
                    product == [i \in DOMAIN Rules |-> act[i] * EffectOf(Rules[i], a)]
                IN  /\ T[a].total_utility = C2_Base[a] * MemOne + SumOver(firing, product)
                    /\ DOMAIN T[a].contributions = {Rules[i].name : i \in firing}
                    /\ \A i \in firing : T[a].contributions[Rules[i].name] = product[i]

\* C2 witness: a table was computed where a rule with an effect is active to a
\* degree above zero but not above 0.001 (and so is left out), while another
\* rule contributes
C2_Witness ==
    /\ scores # <<>>
    /\ \E i \in DOMAIN Rules :
            LET a0 == Preconditions(Rules[i].name, BeliefDict(beliefs))
            IN  a0 > 0 /\ 1000 * a0 <= MemOne
    /\ \E a \in Action : DOMAIN scores[1][a].contributions # {}

\* a call that perceives has returned without raising
Perceived == ret.op \in {"perceive", "decide", "print"} /\ ret.raised = None

\* the fuzzy sets of the group of belief b_name
SetsOf(b_name) ==
    IF b_name = "mood" THEN {"bad", "okay", "good"}
    ELSE IF b_name = "time_available_norm" THEN {"short", "medium", "long"}
    ELSE IF b_name = "deadline_status" THEN {"none", "near", "urgent"}
    ELSE {"low", "medium", "high"}

\* C3: Range invariant.  After any perceive call that returns, every stored
\* belief's numeric_strength lies in [0,1], and every membership degree computed
\* from those beliefs for any fuzzy set of the variable's group lies in [0,1].
C3_Range ==
    Perceived =>
        \A n \in DOMAIN beliefs :
            /\ 0 <= beliefs[n].numeric_strength
            /\ beliefs[n].numeric_strength <= StrengthOne
            /\ \A f \in SetsOf(n) :
                /\ 0 <= GetFuzzMem(n, f, BeliefDict(beliefs))
                /\ GetFuzzMem(n, f, BeliefDict(beliefs)) <= MemOne

C4_Lowers ==
    <<"a","b","c","d","e","f","g","h","i","j","k","l","m",
      "n","o","p","q","r","s","t","u","v","w","x","y","z">>

C4_Uppers ==
    <<"A","B","C","D","E","F","G","H","I","J","K","L","M",
      "N","O","P","Q","R","S","T","U","V","W","X","Y","Z">>

\* text s is the lower-case word w, in any case
C4_Matches(s, w) ==
    /\ Len(s) = Len(w)
    /\ \A i \in DOMAIN s :
            \/ s[i] = w[i]
            \/ \E j \in DOMAIN C4_Lowers : w[i] = C4_Lowers[j] /\ s[i] = C4_Uppers[j]

\* the strength the claim gives label v of key k
C4_Strength(k, v) ==
    LET words == IF k = "mood" THEN <<S_bad, S_okay, S_good>>
                 ELSE IF k = "deadline_status" THEN <<S_none, S_near, S_urgent>>
                 ELSE <<S_low, S_medium, S_high>>
    IN  IF C4_Matches(v, words[1]) THEN 0
        ELSE IF C4_Matches(v, words[2]) THEN StrengthOne \div 2
        ELSE IF C4_Matches(v, words[3]) THEN StrengthOne
        ELSE IF k = "deadline_status" THEN 0
        ELSE StrengthOne \div 2

\* C4: Perception mapping.  After a perceive that returns, the stored beliefs
\* are those of the recognized label keys of the input and time_available_norm,
\* no others; each label key has the strength of its label (low/bad/none 0.0,
\* medium/okay/near 0.5, high/good/urgent 1.0, in any case; any other label 0.5,
\* or 0.0 for deadline_status); time_available_norm is min(minutes/120, 1.0),
\* with 0.25 when time_available is omitted; and a call raises only when
\* time_available is present and is not a number.
C4_Mapping ==
    /\ Perceived =>
        LET x == input[1]
        IN  /\ DOMAIN beliefs =
                    ((DOMAIN x) \cap {"energy_level", "stress_level", "mental_focus",
                                      "physical_fatigue", "mood", "deadline_status"})
                        \cup {"time_available_norm"}
            /\ \A k \in (DOMAIN beliefs) \ {"time_available_norm"} :
                    beliefs[k].numeric_strength = C4_Strength(k, x[k])
            /\ "time_available" \notin DOMAIN x =>
                    4 * beliefs["time_available_norm"].numeric_strength = StrengthOne
            /\ "time_available" \in DOMAIN x =>
                    LET minutes == ParseFloat(x["time_available"]).val
                    IN  beliefs["time_available_norm"].numeric_strength =
                            IF minutes >= 120 * TimeDen THEN StrengthOne
                            ELSE (minutes * StrengthOne) \div (120 * TimeDen)
    /\ (ret.op \in {"perceive", "decide", "print"} /\ ret.raised # None) =>
            /\ "time_available" \in DOMAIN input[1]
            /\ ~ParseFloat(input[1]["time_available"]).ok

\* C4 witness: a perceive returned on an input whose deadline_status label no
\* mapping knows, and on one whose label is in another case
C4_Witness ==
    /\ Perceived
    /\ "deadline_status" \in DOMAIN input[1]
    /\ input[1]["deadline_status"] = <<"s","o","o","n">>
    /\ beliefs["deadline_status"].numeric_strength = 0

\* C5: A recognized key other than time_available that is missing from the
\* input is treated as absent, not as zero: no belief is stored for it, and in
\* the table computed from those beliefs no rule that reads the missing
\* variable contributes to any action.
C5_AbsentNotZero ==
    (Perceived /\ scores # <<>>) =>
        \A k \in BeliefMappingKeys \ DOMAIN input[1] :
            /\ k \notin DOMAIN beliefs
            /\ \A i \in DOMAIN Rules :
                    k \in RuleReads(Rules[i].name) =>
                        \A a \in Action :
                            Rules[i].name \notin DOMAIN scores[1][a].contributions

\* the rule list without the rules named in R
RulesWithout(R) == SelectSeq(Rules, LAMBDA r : r.name \notin R)

\* C6: Failure isolation.  When rules raise during _compute_utilities, a table
\* with all 8 actions is still returned, the raising rules contribute to no
\* action, and every total and contribution is what the rule list without the
\* raising rules gives.
C6_FailureIsolation ==
    scores # <<>> =>
        /\ DOMAIN scores[1] = Action
        /\ \A a \in Action : (DOMAIN scores[1][a].contributions) \cap raising = {}
        /\ scores[1] = ComputeUtilities(beliefs, RulesWithout(raising), {})

\* C6 witness: a table was returned although a rule raised that, evaluated,
\* is active above the threshold, and a rule after it in the list contributes
C6_Witness ==
    /\ scores # <<>>
    /\ \E i \in DOMAIN Rules :
            /\ Rules[i].name \in raising
            /\ Preconditions(Rules[i].name, BeliefDict(beliefs)) > ActivationThreshold
            /\ \E j \in (i + 1)..Len(Rules), a \in DOMAIN Rules[i].effects :
                    Rules[j].name \in DOMAIN scores[1][a].contributions

\* C7: Malformed numeric input.  A perceive, decide or print_utility_table
\* call whose time_available is "abc" raises ValueError: it returns no action
\* and stores no time belief.
C7_ParseError ==
    (/\ ret.op \in {"perceive", "decide", "print"}
     /\ "time_available" \in DOMAIN input[1]
     /\ input[1]["time_available"] = <<"a","b","c">>) =>
        /\ ret.raised = "ValueError"
        /\ ret.action = None
        /\ "time_available_norm" \notin DOMAIN beliefs
        /\ scores = <<>>

\* C7 witness: decide raised ValueError on an agent that had decided before
C7_Witness ==
    /\ ret.op = "decide"
    /\ ret.raised = "ValueError"
    /\ last_action # None

\* the beliefs of input x, key by key
C8_Derived(x) ==
    [n \in ((DOMAIN x) \cap BeliefMappingKeys) \cup {"time_available_norm"} |->
        IF n = "time_available_norm"
        THEN [name |-> n, value |-> TimeVal(x).val,
              numeric_strength |-> Min(TimeVal(x).val, StrengthOne)]
        ELSE [name |-> n, value |-> x[n], numeric_strength |-> C4_Strength(n, x[n])]]

\* C8: Full rebuild and idempotence.  Every step that is a perceiving call
\* which returns leaves exactly the beliefs of its input, whatever the beliefs
\* before it; and when the table of the previous input was computed and the
\* call computes the table of the same input again, the two tables are equal.
C8_Rebuild ==
    [][(ret'.op \in {"perceive", "decide", "print"} /\ ret'.raised = None) =>
            /\ beliefs' = C8_Derived(input'[1])
            /\ (scores # <<>> /\ scores' # <<>> /\ input' = input) => scores' = scores
      ]_vars

\* C8 witness: after a decide on the 'exhausted' scenario (the one input that
\* gives DEEP_REST), a perceive of the empty input left the time belief alone
C8_Witness ==
    /\ last_action = "DEEP_REST"
    /\ ret.op = "perceive"
    /\ ret.raised = None
    /\ input = <<[k \in {} |-> <<>>]>>
    /\ DOMAIN beliefs = {"time_available_norm"}

\* STUDY's total for input x with deadline_status d
C9_Study(x, d) ==
    ComputeUtilities(Perceive(beliefs, With(x, "deadline_status", d)).beliefs,
                     Rules, {})["STUDY"].total_utility

\* C9: Monotonicity in deadline.  For the input of any decide that returned,
\* STUDY's total with deadline_status "none" is at most its total with "near",
\* which is at most its total with "urgent"; and the total of the call itself
\* is the one of its own deadline label.
C9_Monotone ==
    (ret.op = "decide" /\ ret.raised = None) =>
        LET x == input[1]
        IN  /\ C9_Study(x, S_none) <= C9_Study(x, S_near)
            /\ C9_Study(x, S_near) <= C9_Study(x, S_urgent)
            /\ ("deadline_status" \in DOMAIN x /\ x["deadline_status"] = S_urgent) =>
                    scores[1]["STUDY"].total_utility = C9_Study(x, S_urgent)

\* C9 witness: a decide returned on an urgent deadline, where STUDY's total is
\* strictly above what it is with no deadline
C9_Witness ==
    /\ ret.op = "decide"
    /\ ret.raised = None
    /\ "deadline_status" \in DOMAIN input[1]
    /\ input[1]["deadline_status"] = S_urgent
    /\ scores[1]["STUDY"].total_utility > C9_Study(input[1], S_none)

\* scenario 2 of the spec
C10_Input ==
    Inp(S_low, S_medium, <<"3","0">>, S_none, S_low, S_bad, S_high)

\* C10: End-to-end scenario 2.  Every decide on the scenario's input, on a
\* fresh agent or after other calls, returns DEEP_REST; DEEP_REST's total is
\* strictly above every other action's; its contributions are those of
\* high_fatigue and bad_mood_care.
C10_Scenario2 ==
    (ret.op = "decide" /\ input = <<C10_Input>>) =>
        /\ ret.raised = None
        /\ ret.action = "DEEP_REST"
        /\ \A a \in Action \ {"DEEP_REST"} :
                scores[1][a].total_utility < scores[1]["DEEP_REST"].total_utility
        /\ DOMAIN scores[1]["DEEP_REST"].contributions = {"high_fatigue", "bad_mood_care"}

\* C10 witness: the first call on a fresh agent was decide on scenario 2
C10_Witness ==
    /\ ret.op = "decide"
    /\ input = <<C10_Input>>
    /\ iteration = 1
    /\ ret.action = "DEEP_REST"

\* the actions of the set S whose total in table T is the greatest of S
Highest(T, S) == {a \in S : \A b \in S : T[b].total_utility <= T[a].total_utility}

\* C11: Lower tie-break tiers.  Whenever _resolve_decision returns on a table
\* with more than one contender and no health action among the contenders:
\* (b) if STUDY or PLAN_NEXT_STEPS is a contender, it returns a contender of
\* the highest total among those two, whatever last_action is; (c) otherwise,
\* if last_action is recorded, it returns a contender of the highest total
\* among the contenders that differ from last_action; (d) otherwise it returns
\* an action of the maximum total.  With exactly one contender it returns that
\* action.
C11_LowerTiers ==
    ret.op = "resolve" =>
        LET T == scores[1]
            m == MaxTotal(T)
            contenders == Within(T, m)
            dc == contenders \cap DeadlinePriority
        IN  /\ (Cardinality(contenders) > 1 /\ contenders \cap HealthPriority = {}) =>
                    IF dc # {} THEN ret.action \in Highest(T, dc)
                    ELSE IF last_action # None
                    THEN ret.action \in Highest(T, contenders \ {last_action})
                    ELSE T[ret.action].total_utility = m
            /\ Cardinality(contenders) = 1 => ret.action \in contenders

\* C11 witness: the anti-repetition tier decided: no health or deadline action
\* among several contenders, last_action the one of the maximum total, and
\* another contender of a lower total returned
C11_Witness ==
    /\ ret.op = "resolve"
    /\ LET T == scores[1]
           m == MaxTotal(T)
           contenders == Within(T, m)
       IN  /\ contenders \cap (HealthPriority \cup DeadlinePriority) = {}
           /\ last_action \in contenders
           /\ T[last_action].total_utility = m
           /\ ret.action # last_action
           /\ T[ret.action].total_utility < m

\* the corners (a, b, c) of the twelve fuzzy sets, by group
C12_Corners ==
    [level     |-> [low |-> <<0, 0, 5>>, medium |-> <<0, 5, 10>>, high |-> <<5, 10, 10>>],
     time_norm |-> [short |-> <<0, 0, 3>>, medium |-> <<2, 5, 8>>, long |-> <<7, 10, 10>>],
     deadline  |-> [none |-> <<0, 0, 4>>, near |-> <<2, 5, 8>>, urgent |-> <<6, 10, 10>>],
     mood      |-> [bad |-> <<0, 0, 5>>, okay |-> <<0, 5, 10>>, good |-> <<5, 10, 10>>]]

\* the group of belief b_name
C12_Group(b_name) ==
    IF b_name \in LevelNames THEN "level"
    ELSE IF b_name = "mood" THEN "mood"
    ELSE IF b_name = "time_available_norm" THEN "time_norm"
    ELSE "deadline"

\* the point of the universe the last query was made at, in 1/StrengthOne
C12_Point == beliefs[ret.b_name].numeric_strength * 10

\* a query was made for a belief the belief_dict holds
C12_Queried == ret.op = "get_fuzz_mem" /\ ret.b_name \in DOMAIN beliefs

\* C12 as the specification words it: for each of the twelve sets, the
\* shoulder sets included, the query at b returns 1.0 and the query at a and
\* at c returns 0.0
C12_BoundaryExact_Original ==
    C12_Queried =>
        LET abc == C12_Corners[C12_Group(ret.b_name)][ret.f_set_name]
        IN  /\ C12_Point = abc[2] * StrengthOne => ret.degree = MemOne
            /\ C12_Point = abc[1] * StrengthOne => ret.degree = 0
            /\ C12_Point = abc[3] * StrengthOne => ret.degree = 0

\* C12: Boundary exactness.  For each of the twelve fuzzy sets with corners
\* (a, b, c), the membership query at universe point b returns exactly 1.0; the
\* query at a returns exactly 0.0 when a < b, and the query at c returns exactly
\* 0.0 when b < c.  (At the corner a shoulder set shares with its peak, a = b or
\* b = c, the query returns 1.0.)
C12_BoundaryExact ==
    C12_Queried =>
        LET abc == C12_Corners[C12_Group(ret.b_name)][ret.f_set_name]
        IN  /\ C12_Point = abc[2] * StrengthOne => ret.degree = MemOne
            /\ (C12_Point = abc[1] * StrengthOne /\ abc[1] < abc[2]) => ret.degree = 0
            /\ (C12_Point = abc[3] * StrengthOne /\ abc[2] < abc[3]) => ret.degree = 0

\* C12 witness: a query at the corner a = b of a left shoulder returned 1.0,
\* and the belief queried was in the belief_dict
C12_Witness ==
    /\ C12_Queried
    /\ LET abc == C12_Corners[C12_Group(ret.b_name)][ret.f_set_name]
       IN  /\ abc[1] = abc[2]
           /\ C12_Point = abc[1] * StrengthOne
           /\ ret.degree = MemOne

\* one step of the agent, seen from last_action and iteration
C13_Step ==
    /\ ret'.op \in {"perceive", "compute", "resolve", "print"} =>
            UNCHANGED <<last_action, iteration>>
    /\ (ret'.op = "decide" /\ ret'.raised = None) =>
            /\ iteration' = iteration + 1
            /\ ret'.action \in Action
            /\ last_action' = ret'.action

\* C13: Agent-state frame.  A new agent has iteration 0 and no last_action;
\* across any sequence of calls, perceive, _compute_utilities,
\* _resolve_decision and print_utility_table leave last_action and iteration
\* unchanged, and each decide call that returns increases iteration by exactly 1
\* and sets last_action to the action it returns; hence after n decide calls
\* that returned, and none that raised, iteration = n and last_action is the
\* action the n-th call returned.
C13_Frame == (iteration = 0 /\ last_action = None) /\ [][C13_Step]_vars

\* C13 witness: a second decide call has returned, and last_action is the
\* action it returned
C13_Witness ==
    /\ ret.op = "decide"
    /\ ret.raised = None
    /\ iteration > 1
    /\ last_action = ret.action

\* the action decide returns for user_input x on a new agent
C14_Fresh(x) ==
    ResolveDecision(ComputeUtilities(Perceive(Clear(<<>>), x).beliefs, Rules, {}),
                    None).action

\* C14 as the specification words it: whenever a decide call returns, on a
\* new agent or after an earlier decide call, the action it returns is the one
\* a new agent returns for the same input, and the one _resolve_decision
\* returns on the same table for every value of last_action; DO_EASY_TASK and
\* GYM are never both contenders and AVOID_DISTRACTIONS never is one
C14_HistoryIndependent_Original ==
    (ret.op = "decide" /\ ret.raised = None) =>
        LET T == scores[1]
            contenders == Within(T, MaxTotal(T))
        IN  /\ ret.action = C14_Fresh(input[1])
            /\ \A last \in Action \cup {None} : ResolveDecision(T, last).action = ret.action
            /\ ~({"DO_EASY_TASK", "GYM"} \subseteq contenders)
            /\ "AVOID_DISTRACTIONS" \notin contenders

\* C14: History independence of decide.  Whenever a decide call returns, on a
\* new agent or after an earlier decide call, the action it returns is the one
\* a new agent returns for the same input, and the one _resolve_decision
\* returns on the same table for every value of last_action; the
\* anti-repetition tier is never reached, because every near tie of several
\* contenders holds a health or a deadline action, and AVOID_DISTRACTIONS is
\* never a contender.  (DO_EASY_TASK and GYM can both be contenders.)
C14_HistoryIndependent ==
    (ret.op = "decide" /\ ret.raised = None) =>
        LET T == scores[1]
            contenders == Within(T, MaxTotal(T))
        IN  /\ ret.action = C14_Fresh(input[1])
            /\ \A last \in Action \cup {None} : ResolveDecision(T, last).action = ret.action
            /\ Cardinality(contenders) > 1 =>
                    contenders \cap (HealthPriority \cup DeadlinePriority) # {}
            /\ "AVOID_DISTRACTIONS" \notin contenders

\* C14 witness: a second decide call, made with a last_action recorded, has
\* returned from a near tie in which DO_EASY_TASK and GYM are both contenders
C14_Witness ==
    /\ ret.op = "decide"
    /\ ret.raised = None
    /\ iteration > 1
    /\ {"DO_EASY_TASK", "GYM"} \subseteq Within(scores[1], MaxTotal(scores[1]))

\* C15: Unreachable action.  Whenever a decide call returns, the action it
\* returns is not AVOID_DISTRACTIONS, and neither is the action
\* _resolve_decision returns on the same table for any value of last_action:
\* the total of SHORT_BREAK exceeds the total of AVOID_DISTRACTIONS by at least
\* 0.35, so AVOID_DISTRACTIONS is never within 0.1 of the maximum.
C15_NeverAvoid ==
    (ret.op = "decide" /\ ret.raised = None) =>
        LET T == scores[1]
        IN  /\ ret.action # "AVOID_DISTRACTIONS"
            /\ \A last \in Action \cup {None} :
                    ResolveDecision(T, last).action # "AVOID_DISTRACTIONS"
            /\ T["SHORT_BREAK"].total_utility - T["AVOID_DISTRACTIONS"].total_utility
                    >= (35 * UtilOne) \div 100
            /\ "AVOID_DISTRACTIONS" \notin Within(T, MaxTotal(T))

\* C15 witness: a decide call has returned on a table where stress_mitigation
\* raised AVOID_DISTRACTIONS above its base and good_mood_relax took nothing
\* from it
C15_Witness ==
    /\ ret.op = "decide"
    /\ ret.raised = None
    /\ LET s == scores[1]["AVOID_DISTRACTIONS"]
       IN  /\ "stress_mitigation" \in DOMAIN s.contributions
           /\ "good_mood_relax" \notin DOMAIN s.contributions
           /\ s.total_utility > s.base_utility

============================================================================
